---- MODULE Spec2Model ----
(***************************************************************************)
(* A model of the shell package: the command tree an App holds, its        *)
(* registration (App.AddCommand), matching (Command.Match) and dispatch    *)
(* (App.ExecuteString, Command.Execute).                                   *)
(*                                                                         *)
(* Go values are modelled with their sharing.  A []Command is a slice      *)
(* header (arr, len, cap) over a backing array held in `arrays`; a Command *)
(* passed by value to AddCommand is a fresh object in `objs`, but its      *)
(* SubCommands header still points at the caller's backing array.          *)
(* Strings are sequences of one-character strings.                         *)
(***************************************************************************)
EXTENDS Integers, Sequences, FiniteSets, TLC

VARIABLES
    arrays,     \* backing arrays of []Command slices: Seq(Seq(Command))
    objs,       \* the Command objects AddCommand's parameter `cmd` lives in
    Commands,   \* App.Commands: pointers (indices into objs)
    lists,      \* slice headers the embedding program holds
    calls,      \* AddCommand calls the embedding program has made
    last,       \* what the last operation was given and what it returned
    ctx,        \* the value store of the Context created last
    loop        \* App.Main: where it stands, its input and what it did

vars == <<arrays, objs, Commands, lists, calls, last, ctx, loop>>

(***************************************************************************)
(* Bounds of the model.                                                    *)
(***************************************************************************)
MaxNameLen == 2     \* longest generated command name
MaxSubs == 2        \* most sub-commands the caller declares in one list
MaxSpare == 1       \* most spare capacity of a caller's slice
MaxLists == 1       \* sub-command lists the caller builds
MaxCalls == 2       \* AddCommand calls the embedding program makes
MaxTokens == 3      \* most tokens of a dispatched line

(***************************************************************************)
(* ExitStatus                                                              *)
(***************************************************************************)
ExitCmd == 0
ExitShell == 1
ExitAll == 2

(***************************************************************************)
(* Strings                                                                 *)
(***************************************************************************)
\* unicode.IsSpace on the characters the model uses
IsSpace(c) == c \in {" ", "\t", "\n", "\r", "\f"}

CountSpaces(s) == Cardinality({i \in 1..Len(s) : IsSpace(s[i])})

\* byte order of the characters the model uses
CharCode(c) ==
    CASE c = "\t" -> 9
      [] c = "\n" -> 10
      [] c = " " -> 32
      [] c = "$" -> 36
      [] c = "-" -> 45
      [] c = ":" -> 58
      [] c = "[" -> 91
      [] c = "]" -> 93
      [] c = "{" -> 123
      [] c = "}" -> 125
      [] c = "a" -> 97
      [] c = "b" -> 98
      [] c = "c" -> 99
      [] c = "d" -> 100
      [] c = "e" -> 101
      [] c = "f" -> 102
      [] c = "g" -> 103
      [] c = "h" -> 104
      [] c = "i" -> 105
      [] c = "l" -> 108
      [] c = "m" -> 109
      [] c = "n" -> 110
      [] c = "o" -> 111
      [] c = "p" -> 112
      [] c = "s" -> 115
      [] c = "t" -> 116
      [] c = "x" -> 120
      [] c = "y" -> 121
      [] OTHER -> 122

RECURSIVE StrLess(_, _)
StrLess(a, b) ==
    IF b = <<>> THEN FALSE
    ELSE IF a = <<>> THEN TRUE
    ELSE IF a[1] # b[1] THEN CharCode(a[1]) < CharCode(b[1])
    ELSE StrLess(Tail(a), Tail(b))

HasPrefix(s, p) == Len(s) >= Len(p) /\ SubSeq(s, 1, Len(p)) = p

\* strings.ReplaceAll: non-overlapping occurrences, left to right
RECURSIVE ReplaceAll(_, _, _)
ReplaceAll(s, old, new) ==
    IF Len(s) < Len(old) THEN s
    ELSE IF HasPrefix(s, old)
         THEN new \o ReplaceAll(SubSeq(s, Len(old) + 1, Len(s)), old, new)
         ELSE <<s[1]>> \o ReplaceAll(Tail(s), old, new)

RECURSIVE TrimLeft(_)
TrimLeft(s) == IF s # <<>> /\ IsSpace(s[1]) THEN TrimLeft(Tail(s)) ELSE s

RECURSIVE TrimRight(_)
TrimRight(s) ==
    IF s # <<>> /\ IsSpace(s[Len(s)]) THEN TrimRight(SubSeq(s, 1, Len(s) - 1)) ELSE s

\* strings.TrimSpace
TrimSpace(s) == TrimRight(TrimLeft(s))

\* strings.Fields: the maximal runs of non-space characters
RECURSIVE FieldsFrom(_, _)
FieldsFrom(s, cur) ==
    IF s = <<>> THEN (IF cur = <<>> THEN <<>> ELSE <<cur>>)
    ELSE IF IsSpace(s[1])
         THEN (IF cur = <<>> THEN <<>> ELSE <<cur>>) \o FieldsFrom(Tail(s), <<>>)
         ELSE FieldsFrom(Tail(s), Append(cur, s[1]))

Fields(s) == FieldsFrom(s, <<>>)

(***************************************************************************)
(* Names and texts of the package                                          *)
(***************************************************************************)
NameExit == <<"e", "x", "i", "t">>
NameHelp == <<"h", "e", "l", "p">>
NameCommands == <<"c", "o", "m", "m", "a", "n", "d", "s">>
NameFlags == <<"f", "l", "a", "g", "s">>
FlagShellOnly == <<"s", "h", "e", "l", "l", "-", "o", "n", "l", "y">>

TmplName == <<"$", "{", "n", "a", "m", "e", "}">>
TmplFullName == <<"$", "{", "f", "u", "l", "l", "N", "a", "m", "e", "}">>
TmplFlags == <<"$", "{", "f", "l", "a", "g", "s", "}">>
TmplShortFlags == <<"$", "{", "s", "h", "o", "r", "t", "F", "l", "a", "g", "s", "}">>

(***************************************************************************)
(* Values                                                                  *)
(***************************************************************************)
NilSlice == [arr |-> 0, len |-> 0, cap |-> 0]

\* a nil func value
NilFunc == [def |-> FALSE, kind |-> "nil", ret |-> ExitCmd, flags |-> {}]

\* a SetFlags callback registering the flags fl (records [name, bool])
SetFlagsFunc(fl) == [def |-> TRUE, kind |-> "setflags", ret |-> ExitCmd, flags |-> fl]

\* a Main handler; kind "user" returns ret, the other kinds are the default
\* handlers of shell.go
MainFunc(kind, ret) == [def |-> TRUE, kind |-> kind, ret |-> ret, flags |-> {}]

Command(name, usage, setFlags, main, subs, prevent) ==
    [Name |-> name, Usage |-> usage, SetFlags |-> setFlags, Main |-> main,
     SubCommands |-> subs, PreventDefaultSubCommands |-> prevent,
     parent |-> 0, app |-> "nil"]

\* the zero value of Command
ZeroCommand == Command(<<>>, <<>>, NilFunc, NilFunc, NilSlice, FALSE)

BoolFlag(name) == [name |-> name, bool |-> TRUE]
ValueFlag(name) == [name |-> name, bool |-> FALSE]

DefaultCommands ==
    << Command(NameExit, <<>>, [SetFlagsFunc({BoolFlag(FlagShellOnly)}) EXCEPT !.kind = "exitflags"],
               MainFunc("exit", ExitCmd), NilSlice, FALSE),
       Command(NameHelp, <<>>, NilFunc, MainFunc("help", ExitCmd), NilSlice, FALSE) >>

\* the usage texts are cut after their first line's head
DefaultSubCommands ==
    << Command(NameCommands, TmplName \o <<":">>, NilFunc,
               MainFunc("commands", ExitCmd), NilSlice, FALSE),
       Command(NameFlags, TmplName \o <<" ", "[", "]", ":">>, NilFunc,
               MainFunc("subflags", ExitCmd), NilSlice, FALSE),
       Command(NameHelp, TmplName \o <<" ", "[", "]", ":">>, NilFunc,
               MainFunc("subhelp", ExitCmd), NilSlice, FALSE) >>

NoErr == [kind |-> "ok", name |-> <<>>, n |-> 0]
Err(kind, name, n) == [kind |-> kind, name |-> name, n |-> n]

(***************************************************************************)
(* Slices.  A memory is a record [arrays, s]: the backing arrays and the   *)
(* slice header being built.                                               *)
(***************************************************************************)
\* the elements a slice shows
Elems(arrs, s) == [i \in 1..s.len |-> arrs[s.arr][i]]

\* the capacity append gives a grown array (the runtime doubles a small one)
GrowCap(oldCap, needed) == IF 2 * oldCap >= needed THEN 2 * oldCap ELSE needed

\* the array append allocates when s is full: the elements of s, then v
GrownArray(arrs, s, v) ==
    [i \in 1..GrowCap(s.cap, s.len + 1) |->
        IF i <= s.len THEN arrs[s.arr][i]
        ELSE IF i = s.len + 1 THEN v ELSE ZeroCommand]

\* append(s, v): in place when the capacity allows, into a new array otherwise
AppendSlice(arrs, s, v) ==
    IF s.len < s.cap
    THEN [arrays |-> [arrs EXCEPT ![s.arr][s.len + 1] = v],
          s |-> [s EXCEPT !.len = @ + 1]]
    ELSE [arrays |-> Append(arrs, GrownArray(arrs, s, v)),
          s |-> [arr |-> Len(arrs) + 1, len |-> s.len + 1,
                 cap |-> GrowCap(s.cap, s.len + 1)]]

(***************************************************************************)
(* The flag package, as far as the package uses it                         *)
(***************************************************************************)
\* the flag of fl whose name comes first in byte order
FirstFlag(fl) == CHOOSE f \in fl : \A g \in fl \ {f} : StrLess(f.name, g.name)

\* FlagSet.VisitAll visits the flags in the byte order of their names
RECURSIVE SortedFrom(_, _)
SortedFrom(fl, acc) ==
    IF fl = {} THEN acc
    ELSE SortedFrom({f \in fl : \E g \in fl : StrLess(g.name, f.name)},
                    Append(acc, FirstFlag(fl)))

SortedFlags(fl) == SortedFrom(fl, <<>>)

\* one line of FlagSet.PrintDefaults: "  -name" (the flag's type, usage text
\* and default are left out of the line)
DefaultsLine(f) ==
    <<" ", " ", "-">> \o f.name \o (IF f.bool THEN <<>> ELSE <<" ", "v">>) \o <<"\n">>

ShortLine(f) == <<" ", "[", "-">> \o f.name \o <<"]">>

RECURSIVE DefaultsOf(_, _)
DefaultsOf(sorted, acc) ==
    IF sorted = <<>> THEN acc
    ELSE DefaultsOf(Tail(sorted), acc \o DefaultsLine(Head(sorted)))

RECURSIVE ShortOf(_, _)
ShortOf(sorted, acc) ==
    IF sorted = <<>> THEN acc
    ELSE ShortOf(Tail(sorted), acc \o ShortLine(Head(sorted)))

\* getDefaults: what FlagSet.PrintDefaults writes
getDefaults(fl) == DefaultsOf(SortedFlags(fl), <<>>)

\* the text getShortDefaults builds before it cuts the leading space
ShortDefaultsText(fl) == ShortOf(SortedFlags(fl), <<>>)

\* getShortDefaults: output.String()[1:] panics on the empty string, which is
\* what a FlagSet without flags gives
getShortDefaultsPanics(fl) == fl = {}

getShortDefaults(fl) == Tail(ShortDefaultsText(fl))

(***************************************************************************)
(* App.AddCommand                                                          *)
(***************************************************************************)
\* GetByName looking at the first registered command only
HasByNameFirstOnly(cmds, os, name) == cmds # <<>> /\ os[cmds[1]].Name = name

\* App.GetByName: whether a command of that name is registered
HasByName(cmds, os, name) == \E i \in 1..Len(cmds) : os[cmds[i]].Name = name

\* case "flags": one append of def for every item of append(cmd.SubCommands,
\* cmd) that has SetFlags.  r is the slice ranged over (its header is taken
\* once, its elements are read as the loop reaches them); m.s is
\* cmd.SubCommands
RECURSIVE InjectFlags(_, _, _, _)
InjectFlags(m, r, i, def) ==
    IF i > r.len THEN m
    ELSE IF m.arrays[r.arr][i].SetFlags.def
         THEN InjectFlags(AppendSlice(m.arrays, m.s, def), r, i + 1, def)
         ELSE InjectFlags(m, r, i + 1, def)

\* the range loop, given rng = append(cmd.SubCommands, cmd) and the header s
\* of cmd.SubCommands
InjectFlagsOver(s, rng, def) ==
    InjectFlags([arrays |-> rng.arrays, s |-> s], rng.s, 1, def)

\* one turn of the loop over DefaultSubCommands
InjectOne(m, cmd, def) ==
    IF def.Name = NameFlags
    THEN InjectFlagsOver(m.s,
                         AppendSlice(m.arrays, m.s, [cmd EXCEPT !.SubCommands = m.s]),
                         def)
    ELSE AppendSlice(m.arrays, m.s, def)

\* the loop over DefaultSubCommands, from its k-th entry on
RECURSIVE InjectDefaults(_, _, _)
InjectDefaults(m, cmd, k) ==
    IF k > Len(DefaultSubCommands) THEN m
    ELSE InjectDefaults(InjectOne(m, cmd, DefaultSubCommands[k]), cmd, k + 1)

\* lines 144-159: the memory after the default sub-commands are added
Injected(arrs, cmd) ==
    IF cmd.SubCommands.len > 0 /\ ~cmd.PreventDefaultSubCommands
    THEN InjectDefaults([arrays |-> arrs, s |-> cmd.SubCommands], cmd, 1)
    ELSE [arrays |-> arrs, s |-> cmd.SubCommands]

\* the loop over the sub-commands without its check for a second level
RECURSIVE SetParentsNoDepth(_, _, _, _, _)
SetParentsNoDepth(arrs, s, key, o, cmdName) ==
    IF key > s.len THEN [err |-> NoErr, arrays |-> arrs]
    ELSE IF arrs[s.arr][key].Name # <<>> /\ arrs[s.arr][key].Name[1] = "-"
         THEN [err |-> Err("dash", <<>>, 0), arrays |-> arrs]
         ELSE SetParentsNoDepth([arrs EXCEPT ![s.arr][key].parent = o],
                                s, key + 1, o, cmdName)

\* the loop over the sub-commands that rejects a leading '-' and a second
\* level and sets parent = &cmd (the object o), from index key on
RECURSIVE SetParents(_, _, _, _, _)
SetParents(arrs, s, key, o, cmdName) ==
    IF key > s.len THEN [err |-> NoErr, arrays |-> arrs]
    ELSE IF arrs[s.arr][key].Name # <<>> /\ arrs[s.arr][key].Name[1] = "-"
         THEN [err |-> Err("dash", <<>>, 0), arrays |-> arrs]
         ELSE IF arrs[s.arr][key].SubCommands.len > 0
              THEN [err |-> Err("deep", cmdName, 0), arrays |-> arrs]
              ELSE SetParents([arrs EXCEPT ![s.arr][key].parent = o],
                              s, key + 1, o, cmdName)

\* the three checks of one item
ValidateItem(item) ==
    IF item.Name = <<>> THEN Err("blank", <<>>, 0)
    ELSE IF CountSpaces(item.Name) > 0
         THEN Err("whitespace", item.Name, CountSpaces(item.Name))
         ELSE IF ~item.Main.def THEN Err("nomain", item.Name, 0)
              ELSE NoErr

\* Command.FullName; os are the Command objects
FullName(item, os) ==
    IF item.parent # 0 THEN os[item.parent].Name \o <<" ">> \o item.Name
    ELSE item.Name

\* strings.ReplaceAll applied for each pair <<old, new>> of reps in turn
RECURSIVE ReplaceEach(_, _)
ReplaceEach(s, reps) ==
    IF reps = <<>> THEN s
    ELSE ReplaceEach(ReplaceAll(s, reps[1][1], reps[1][2]), Tail(reps))

\* item.Usage after lines 207-220, where getShortDefaults does not panic
TemplatedUsage(item, os) ==
    IF item.SetFlags.def
    THEN ReplaceEach(item.Usage,
                     << <<TmplName, item.Name>>,
                        <<TmplFullName, FullName(item, os)>>,
                        <<TmplFlags, getDefaults(item.SetFlags.flags)>>,
                        <<TmplShortFlags, getShortDefaults(item.SetFlags.flags)>> >>)
    ELSE TrimSpace(ReplaceEach(item.Usage,
                               << <<TmplName, item.Name>>,
                                  <<TmplFullName, FullName(item, os)>>,
                                  <<TmplFlags, <<>> >>,
                                  <<TmplShortFlags, <<>> >> >>))

\* item.Usage when getShortDefaults panics: ${flags} is already replaced
PanickedUsage(item, os) ==
    ReplaceEach(item.Usage,
                << <<TmplName, item.Name>>,
                   <<TmplFullName, FullName(item, os)>>,
                   <<TmplFlags, getDefaults(item.SetFlags.flags)>> >>)

TemplatePanics(item) == item.SetFlags.def /\ getShortDefaultsPanics(item.SetFlags.flags)

\* lines 204-220 on one valid item: item.app = app and the templates
TemplateItem(item, os) ==
    [item EXCEPT !.app = "app",
                 !.Usage = IF TemplatePanics(item) THEN PanickedUsage(item, os)
                           ELSE TemplatedUsage(item, os)]

\* items[i]: &cmd for i = 0, &cmd.SubCommands[i - 1] after it
ItemAt(p, i) == IF i = 0 THEN p.cmd ELSE p.arrays[p.cmd.SubCommands.arr][i]

\* the memory p = [arrays, cmd] with items[i] replaced
WithItem(p, i, item) ==
    IF i = 0 THEN [arrays |-> p.arrays, cmd |-> item]
    ELSE [arrays |-> [p.arrays EXCEPT ![p.cmd.SubCommands.arr][i] = item], cmd |-> p.cmd]

Outcome(err, p) == [err |-> err, arrays |-> p.arrays, cmd |-> p.cmd]

\* the loop over items from item i on; os are the Command objects, the one
\* of this call among them
RECURSIVE ProcessItems(_, _, _)
ProcessItems(p, os, i) ==
    IF i > p.cmd.SubCommands.len THEN Outcome(NoErr, p)
    ELSE IF ValidateItem(ItemAt(p, i)) # NoErr
         THEN Outcome(ValidateItem(ItemAt(p, i)), p)
         ELSE IF TemplatePanics(ItemAt(p, i))
              THEN Outcome(Err("panic", ItemAt(p, i).Name, 0),
                           WithItem(p, i, TemplateItem(ItemAt(p, i), os)))
              ELSE ProcessItems(WithItem(p, i, TemplateItem(ItemAt(p, i), os)), os, i + 1)

\* whether some element of some backing array points at object o
Referenced(arrs, o) ==
    \E a \in 1..Len(arrs) : \E i \in 1..Len(arrs[a]) : arrs[a][i].parent = o

\* lines 177-223, given the outcome par of the loop that sets the parents
Validated(objs0, cmd1, par) ==
    IF par.err # NoErr THEN [err |-> par.err, arrays |-> par.arrays, cmd |-> cmd1]
    ELSE ProcessItems([arrays |-> par.arrays, cmd |-> cmd1], Append(objs0, cmd1), 0)

\* the memory the call leaves: the object of cmd is kept when the call
\* registers it or leaves a parent pointer to it behind
Committed(st, out) ==
    [err |-> out.err, arrays |-> out.arrays,
     objs |-> IF out.err = NoErr \/ Referenced(out.arrays, Len(st.objs) + 1)
              THEN Append(st.objs, out.cmd) ELSE st.objs,
     Commands |-> IF out.err = NoErr THEN Append(st.Commands, Len(st.objs) + 1)
                  ELSE st.Commands]

\* lines 161-223, given the memory inj after the defaults are added
Registered(st, cmd, inj) ==
    Committed(st, Validated(st.objs, [cmd EXCEPT !.SubCommands = inj.s],
                            SetParents(inj.arrays, inj.s, 1, Len(st.objs) + 1, cmd.Name)))

\* AddCommand on the memory st = [arrays, objs, Commands]: the error it
\* returns and the memory it leaves.  The parameter cmd is the object
\* Len(st.objs) + 1
AddCommandOn(st, cmd) ==
    IF HasByName(st.Commands, st.objs, cmd.Name)
    THEN [err |-> Err("duplicate", cmd.Name, 0), arrays |-> st.arrays,
          objs |-> st.objs, Commands |-> st.Commands]
    ELSE Registered(st, cmd, Injected(st.arrays, cmd))

Memory(r) == [arrays |-> r.arrays, objs |-> r.objs, Commands |-> r.Commands]

\* NewApp: an App with no commands, or with DefaultCommands added in order
RECURSIVE AddAll(_, _, _)
AddAll(st, cmds, k) ==
    IF k > Len(cmds) THEN st
    ELSE AddAll(Memory(AddCommandOn(st, cmds[k])), cmds, k + 1)

NewApp(addDefaults) ==
    IF addDefaults
    THEN AddAll([arrays |-> <<>>, objs |-> <<>>, Commands |-> <<>>], DefaultCommands, 1)
    ELSE [arrays |-> <<>>, objs |-> <<>>, Commands |-> <<>>]

(***************************************************************************)
(* Context: the value store                                                *)
(***************************************************************************)
\* the nil interface value
NilValue == "nil"

\* make(map[string]interface{}) in NewContext
EmptyStore == [k \in {} |-> NilValue]

\* keys: of TestContextStore, of a user handler, of the default exit
KeyFoo == "foo"
KeyMark == "mark"
KeyOnlyShell == "flagOnlyShell"

\* Context.Get reporting a nil-valued entry as missing
GetNilIsMissing(values, name) ==
    IF name \in DOMAIN values /\ values[name] # NilValue
    THEN [val |-> values[name], err |-> FALSE]
    ELSE [val |-> NilValue, err |-> TRUE]

\* Context.Get: the value and whether the error is returned
Get(values, name) ==
    IF name \in DOMAIN values THEN [val |-> values[name], err |-> FALSE]
    ELSE [val |-> NilValue, err |-> TRUE]

\* Context.ShouldGet: the map's zero value for a missing key
ShouldGet(values, name) == IF name \in DOMAIN values THEN values[name] ELSE NilValue

\* Context.MustGet: the value, or the panic with Get's error
MustGet(values, name) == [val |-> Get(values, name).val, panic |-> Get(values, name).err]

\* Context.Set
Set(values, name, value) ==
    [k \in DOMAIN values \cup {name} |-> IF k = name THEN value ELSE values[k]]

\* Context.Delete
Delete(values, name) == [k \in DOMAIN values \ {name} |-> values[k]]

(***************************************************************************)
(* flag.FlagSet.Parse, for tokens without '='                              *)
(***************************************************************************)
\* the outcome of Parse: err is "" when the arguments are accepted, set are
\* the names of the flags seen, rest the arguments left over (Args)
ParseResult(err, set, rest) == [err |-> err, set |-> set, rest |-> rest]

\* the name a flag token gives: the token without its one or two minuses
FlagName(tok) == IF tok[2] = "-" THEN SubSeq(tok, 3, Len(tok)) ELSE Tail(tok)

IsBoolFlag(fl, name) == \E f \in fl : f.name = name /\ f.bool

RECURSIVE ParseFlags(_, _, _)
\* parseOne after the token gave `name`; rest are the arguments after it
ParseNamed(fl, name, rest, set) ==
    IF name = <<>> \/ name[1] \in {"-", "="} THEN ParseResult("syntax", set, rest)
    ELSE IF \A f \in fl : f.name # name
         THEN ParseResult(IF name \in {NameHelp, <<"h">>} THEN "help" ELSE "undefined",
                          set, rest)
         ELSE IF IsBoolFlag(fl, name) THEN ParseFlags(fl, rest, set \cup {name})
              ELSE IF rest = <<>> THEN ParseResult("needsarg", set, rest)
                   ELSE ParseFlags(fl, Tail(rest), set \cup {name})

\* FlagSet.Parse(args) for the flags fl, the flags of `set` seen so far
ParseFlags(fl, args, set) ==
    IF args = <<>> \/ Len(args[1]) < 2 \/ args[1][1] # "-" THEN ParseResult("", set, args)
    ELSE IF args[1] = <<"-", "-">> THEN ParseResult("", set, Tail(args))
         ELSE ParseNamed(fl, FlagName(args[1]), Tail(args), set)

(***************************************************************************)
(* Command.Match, Command.Execute and App.ExecuteString                    *)
(***************************************************************************)
\* what a dispatch ran: the command executed, the slice Execute was given
\* and the calls of SetFlags and Main
Exec(ran, args, setFlagsCalls, mainCalls) ==
    [ran |-> ran, args |-> args, setFlagsCalls |-> setFlagsCalls, mainCalls |-> mainCalls,
     seen |-> EmptyStore, values |-> EmptyStore, out |-> <<>>]

NoExec == Exec(ZeroCommand, <<>>, 0, 0)

\* the invocation with the store of its Context: seen is what Main found in
\* it when it was called, values what the invocation left in it
WithStore(exec, seen, values) == [exec EXCEPT !.seen = seen, !.values = values]

\* the error value ErrParseFlags{Name, Err}
ErrParseFlags(name, cause) == [kind |-> "parseflags", name |-> name, n |-> 0, cause |-> cause]

\* what a dispatch gives back; a panic is the error kind "panic"
Result(err, status, exec) == [err |-> err, status |-> status, exec |-> exec]

Panic(exec) == Result(Err("panic", <<>>, 0), ExitCmd, exec)

\* whether a sub-command of the slice s is named name
HasSubCommand(arrs, s, name) == \E i \in 1..s.len : arrs[s.arr][i].Name = name

\* Command.GetSubCommand: the first sub-command of that name
GetSubCommand(arrs, s, name) ==
    arrs[s.arr][CHOOSE i \in 1..s.len :
                    arrs[s.arr][i].Name = name /\ \A j \in 1..(i - 1) : arrs[s.arr][j].Name # name]

\* whether Match panics: input[1][1] is read whenever the command has
\* sub-commands and a second token exists
MatchPanics(cmd, input) ==
    cmd.SubCommands.len > 0 /\ Len(input) > 1 /\ Len(input[2]) < 2

\* Command.Match for a command whose name is input[0], where it does not panic
Match(arrs, cmd, input) ==
    IF cmd.SubCommands.len > 0 /\ Len(input) > 1 /\ input[2][2] # "-"
       /\ HasSubCommand(arrs, cmd.SubCommands, input[2])
    THEN GetSubCommand(arrs, cmd.SubCommands, input[2])
    ELSE cmd

\* whether a default handler dereferences a nil pointer; item is the
\* command run, narg is FlagSet.NArg()
HandlerPanics(st, item, narg, arg) ==
    CASE item.Main.kind = "commands" -> narg = 0 /\ item.parent = 0
      [] item.Main.kind = "subhelp" -> narg <= 1 /\ item.parent = 0
      [] item.Main.kind = "exit" -> narg = 0 /\ ShouldGet(st.ctx, KeyOnlyShell) = NilValue
      [] item.Main.kind = "subflags" ->
            /\ narg <= 1
            /\ \/ item.parent = 0
               \/ narg = 0 /\ st.objs[item.parent].app = "nil"
               \/ /\ narg = 1
                  /\ HasSubCommand(st.arrays, st.objs[item.parent].SubCommands, arg)
                  /\ GetSubCommand(st.arrays, st.objs[item.parent].SubCommands, arg).app = "nil"
      [] OTHER -> FALSE

\* Main of exit looking at its flag before it counts the arguments
MainStatusFlagFirst(item, parsed) ==
    CASE item.Main.kind = "user" -> item.Main.ret
      [] item.Main.kind = "exit" ->
            IF FlagShellOnly \in parsed.set THEN ExitShell
            ELSE IF Len(parsed.rest) > 0 THEN ExitCmd ELSE ExitAll
      [] OTHER -> ExitCmd

\* the ExitStatus Main returns
MainStatus(item, parsed) ==
    CASE item.Main.kind = "user" -> item.Main.ret
      [] item.Main.kind = "exit" ->
            IF Len(parsed.rest) > 0 THEN ExitCmd
            ELSE IF FlagShellOnly \in parsed.set THEN ExitShell ELSE ExitAll
      [] OTHER -> ExitCmd

SetFlagsCalls(item) == IF item.SetFlags.def THEN 1 ELSE 0

\* the line help prints for a command: "\t<name>\t\t<synopsis>\n", without
\* the synopsis, which never decides the order of two lines since the names
\* differ and hold no tab
HelpLine(name) == <<"\t">> \o name \o <<"\t", "\t", "\n">>

\* the list help builds: a line for each command of app.Commands from
\* position i on, those named help left out
RECURSIVE HelpLinesFrom(_, _)
HelpLinesFrom(st, i) ==
    IF i > Len(st.Commands) THEN <<>>
    ELSE (IF st.objs[st.Commands[i]].Name = NameHelp THEN <<>>
          ELSE <<HelpLine(st.objs[st.Commands[i]].Name)>>)
         \o HelpLinesFrom(st, i + 1)

\* line put into the sorted list at its place
RECURSIVE Inserted(_, _)
Inserted(sorted, line) ==
    IF sorted = <<>> THEN <<line>>
    ELSE IF StrLess(line, sorted[1]) THEN <<line>> \o sorted
    ELSE <<sorted[1]>> \o Inserted(Tail(sorted), line)

\* help printing its list as it built it
Unsorted(list, acc) == acc \o list

\* sort.Strings: the lines in byte order
RECURSIVE SortStrings(_, _)
SortStrings(list, acc) ==
    IF list = <<>> THEN acc ELSE SortStrings(Tail(list), Inserted(acc, list[1]))

\* what the Main of help prints as its list: with no argument the sorted
\* lines, nothing of the kind with arguments
HelpOutput(st, item, parsed) ==
    IF item.Main.kind = "help" /\ parsed.rest = <<>>
    THEN SortStrings(HelpLinesFrom(st, 1), <<>>)
    ELSE <<>>

\* the invocation with the lines Main printed
WithOutput(exec, out) == [exec EXCEPT !.out = out]

\* the pointer flagSet.Bool returns, which exit keeps in its Context
PtrShellOnly == "*shell-only"

\* the store after `if cmd.SetFlags != nil { cmd.SetFlags(ctx) }`: the
\* SetFlags of exit keeps the pointer to its flag
AfterSetFlags(values, item) ==
    IF item.SetFlags.def /\ item.SetFlags.kind = "exitflags"
    THEN Set(values, KeyOnlyShell, PtrShellOnly)
    ELSE values

\* the store after Main: a user handler records that it ran
AfterMain(values, item) ==
    IF item.Main.kind = "user" THEN Set(values, KeyMark, "true") ELSE values

\* the memory with the store of the Context the invocation works on
WithContext(st, values) == [st EXCEPT !.ctx = values]

\* Execute calling Main before it looks at the error of Parse
ExecutedMainFirst(st, item, input, parsed) ==
    Result(IF parsed.err # "" THEN ErrParseFlags(item.Name, parsed.err) ELSE NoErr,
           IF parsed.err # "" THEN ExitCmd ELSE MainStatus(item, parsed),
           WithStore(Exec(item, input, SetFlagsCalls(item), 1), st.ctx, AfterMain(st.ctx, item)))

\* Command.Execute after Parse returned parsed
Executed(st, item, input, parsed) ==
    IF parsed.err # ""
    THEN Result(ErrParseFlags(item.Name, parsed.err), ExitCmd,
                WithStore(Exec(item, input, SetFlagsCalls(item), 0), st.ctx, st.ctx))
    ELSE IF HandlerPanics(st, item, Len(parsed.rest),
                          IF parsed.rest = <<>> THEN <<>> ELSE parsed.rest[1])
         THEN Panic(WithStore(Exec(item, input, SetFlagsCalls(item), 1), st.ctx, st.ctx))
         ELSE Result(NoErr, MainStatus(item, parsed),
                     WithOutput(WithStore(Exec(item, input, SetFlagsCalls(item), 1),
                                          st.ctx, AfterMain(st.ctx, item)),
                                HelpOutput(st, item, parsed)))

\* Command.Execute working on the store of the Context created before
ExecuteReusingContext(st, item, input) ==
    IF item.app = "nil" THEN Panic(NoExec)
    ELSE Executed(WithContext(st, AfterSetFlags(st.ctx, item)), item, input,
                  ParseFlags(IF item.SetFlags.def THEN item.SetFlags.flags ELSE {},
                             Tail(input), {}))

\* Command.Execute parsing before SetFlags has registered the flags
ExecuteParsesFirst(st, item, input) ==
    IF item.app = "nil" THEN Panic(NoExec)
    ELSE Executed(WithContext(st, AfterSetFlags(EmptyStore, item)), item, input,
                  ParseFlags({}, Tail(input), {}))

\* Command.Execute: NewContext reads cmd.app.ErrOutput and makes an empty
\* store, SetFlags registers the flags, Parse gets input[1:]
Execute(st, item, input) ==
    IF item.app = "nil" THEN Panic(NoExec)
    ELSE Executed(WithContext(st, AfterSetFlags(EmptyStore, item)), item, input,
                  ParseFlags(IF item.SetFlags.def THEN item.SetFlags.flags ELSE {},
                             Tail(input), {}))

\* the body of the loop of ExecuteString for the matched item
ExecuteMatched(st, item, split) ==
    IF item.parent # 0 THEN Execute(st, item, Tail(split)) ELSE Execute(st, item, split)

\* the first command of App.Commands whose name is split[0]
FirstNamed(st, name) ==
    st.objs[st.Commands[CHOOSE i \in 1..Len(st.Commands) :
                /\ st.objs[st.Commands[i]].Name = name
                /\ \A j \in 1..(i - 1) : st.objs[st.Commands[j]].Name # name]]

\* ExecuteString reporting the whole input as the name not found
ExecuteSplitWholeInput(st, input, split) ==
    IF split = <<>> THEN Result(Err("parseinput", input, 0), ExitCmd, NoExec)
    ELSE IF ~HasByName(st.Commands, st.objs, split[1])
         THEN Result(Err("nocmd", input, 0), ExitCmd, NoExec)
         ELSE IF MatchPanics(FirstNamed(st, split[1]), split) THEN Panic(NoExec)
              ELSE ExecuteMatched(st, Match(st.arrays, FirstNamed(st, split[1]), split), split)

\* ExecuteString once strings.Fields gave split
ExecuteSplit(st, input, split) ==
    IF split = <<>> THEN Result(Err("parseinput", input, 0), ExitCmd, NoExec)
    ELSE IF ~HasByName(st.Commands, st.objs, split[1])
         THEN Result(Err("nocmd", split[1], 0), ExitCmd, NoExec)
         ELSE IF MatchPanics(FirstNamed(st, split[1]), split) THEN Panic(NoExec)
              ELSE ExecuteMatched(st, Match(st.arrays, FirstNamed(st, split[1]), split), split)

\* App.ExecuteString on the memory st
ExecuteStringOn(st, input) == ExecuteSplit(st, input, Fields(input))

(***************************************************************************)
(* State machine                                                           *)
(***************************************************************************)
Last(op, cmd, line, err, status, exec) ==
    [op |-> op, cmd |-> cmd, line |-> line, err |-> err, status |-> status, exec |-> exec]

\* App.Main has not been called
Idle == [state |-> "idle", input |-> <<>>, ret |-> ExitCmd, reads |-> 0, log |-> <<>>]

\* the state NewApp leaves, with or without the default commands
Init ==
    \E addDefaults \in BOOLEAN :
        \E app \in {NewApp(addDefaults)} :
           /\ arrays = app.arrays
           /\ objs = app.objs
           /\ Commands = app.Commands
           /\ lists = <<>>
           /\ calls = 0
           /\ ctx = EmptyStore
           /\ loop = Idle
           /\ last = Last("new", ZeroCommand, <<>>, NoErr, ExitCmd, NoExec)

\* the embedding program builds a []Command of the given elements with
\* `spare` unused capacity, before it registers its commands
MakeList(elems, spare) ==
    /\ Len(lists) < MaxLists
    /\ calls = 0
    /\ arrays' = Append(arrays, elems \o [i \in 1..spare |-> ZeroCommand])
    /\ lists' = Append(lists, [arr |-> Len(arrays) + 1, len |-> Len(elems),
                               cap |-> Len(elems) + spare])
    /\ last' = Last("list", ZeroCommand, <<>>, NoErr, ExitCmd, NoExec)
    /\ UNCHANGED <<objs, Commands, calls, ctx, loop>>

\* app.AddCommand(cmd)
AddCommand(cmd) ==
    /\ calls < MaxCalls
    /\ calls' = calls + 1
    /\ \E r \in {AddCommandOn([arrays |-> arrays, objs |-> objs, Commands |-> Commands], cmd)} :
          /\ arrays' = r.arrays
          /\ objs' = r.objs
          /\ Commands' = r.Commands
          /\ last' = Last("add", cmd, <<>>, r.err, ExitCmd, NoExec)
    /\ UNCHANGED <<lists, ctx, loop>>

\* app.ExecuteString(input); the App is left as it was
\* the memory a dispatch finds: the registered tree and the store of the
\* Context created last
Heap == [arrays |-> arrays, objs |-> objs, Commands |-> Commands, ctx |-> ctx]

ExecuteString(input) ==
    /\ \E r \in {ExecuteStringOn(Heap, input)} :
          /\ last' = Last("exec", ZeroCommand, input, r.err, r.status, r.exec)
          /\ ctx' = IF r.exec.ran = ZeroCommand THEN ctx ELSE r.exec.values
    /\ UNCHANGED <<arrays, objs, Commands, lists, calls, loop>>

\* readline.ErrInterrupt in place of a line
Interrupt == <<"^C">>

\* what Main prints for the error of ExecuteString
Printed(err) ==
    CASE err = NoErr -> ""
      [] err.kind = "parseflags" -> "failed to parse flags"
      [] err.kind = "nocmd" -> "command not found"
      [] OTHER -> "error"

\* one dispatch of the loop, as it goes to the log
Dispatched(line, r) ==
    [line |-> line, printed |-> Printed(r.err), status |-> r.status, exec |-> r.exec]

\* the loop returning whatever status ExecuteString gave
AfterDispatchAlwaysReturns(l, line, r) ==
    [state |-> IF r.err.kind = "panic" THEN "panicked" ELSE "terminated",
     input |-> Tail(l.input),
     ret |-> IF r.err.kind = "panic" THEN l.ret ELSE r.status,
     reads |-> l.reads + 1,
     log |-> Append(l.log, Dispatched(line, r))]

\* the loop after ExecuteString returned r for line: a panic unwinds Main,
\* a status other than ExitCmd is returned, anything else reads on
AfterDispatch(l, line, r) ==
    [state |-> IF r.err.kind = "panic" THEN "panicked"
               ELSE IF r.status # ExitCmd THEN "terminated" ELSE "reading",
     input |-> Tail(l.input),
     ret |-> IF r.err.kind = "panic" THEN l.ret ELSE r.status,
     reads |-> l.reads + 1,
     log |-> Append(l.log, Dispatched(line, r))]

\* the embedding program calls App.Main with lines waiting on app.Input
MainStart(lines) ==
    /\ loop.state = "idle"
    /\ loop' = [loop EXCEPT !.state = "reading", !.input = lines]
    /\ UNCHANGED <<arrays, objs, Commands, lists, calls, last, ctx>>

\* one iteration of the loop of App.Main
MainStep ==
    /\ loop.state = "reading"
    /\ IF loop.input = <<>>
       THEN /\ loop' = [loop EXCEPT !.state = "terminated", !.ret = ExitShell,
                                    !.reads = @ + 1]
            /\ UNCHANGED <<last, ctx>>
       ELSE IF Head(loop.input) = Interrupt
       THEN /\ loop' = [loop EXCEPT !.state = "terminated", !.ret = ExitShell,
                                    !.reads = @ + 1, !.input = Tail(@)]
            /\ UNCHANGED <<last, ctx>>
       ELSE IF TrimSpace(Head(loop.input)) = <<>>
       THEN /\ loop' = [loop EXCEPT !.reads = @ + 1, !.input = Tail(@)]
            /\ UNCHANGED <<last, ctx>>
       ELSE \E r \in {ExecuteStringOn(Heap, Head(loop.input))} :
               /\ loop' = AfterDispatch(loop, Head(loop.input), r)
               /\ last' = Last("exec", ZeroCommand, Head(loop.input), r.err, r.status, r.exec)
               /\ ctx' = IF r.exec.ran = ZeroCommand THEN ctx ELSE r.exec.values
    /\ UNCHANGED <<arrays, objs, Commands, lists, calls>>

\* a handler holding the Context calls ctx.Set(name, value)
CallSet(name, value) ==
    /\ ctx' = Set(ctx, name, value)
    /\ UNCHANGED <<arrays, objs, Commands, lists, calls, last, loop>>

\* a handler holding the Context calls ctx.Delete(name)
CallDelete(name) ==
    /\ ctx' = Delete(ctx, name)
    /\ UNCHANGED <<arrays, objs, Commands, lists, calls, last, loop>>

(***************************************************************************)
(* Inputs                                                                  *)
(***************************************************************************)
\* a sub-command's own sub-command list of one element; only its length is
\* ever read
ThirdLevel == [arr |-> 0, len |-> 1, cap |-> 1]

UserMain == MainFunc("user", ExitCmd)

UsageText == TmplName \o <<":">> \o TmplFullName \o <<" ">> \o TmplShortFlags

NameA == <<"a">>
NameB == <<"b">>
NameDashA == <<"-", "a">>
FlagX == <<"x">>
FlagB == <<"b">>

\* a command with a handler and no flags
Plain(n) == Command(n, UsageText, NilFunc, UserMain, NilSlice, FALSE)

\* every list of 1..MaxSubs elements of pool
ListsOf(pool) == UNION {[1..k -> pool] : k \in 1..MaxSubs}

\* the commands of shapes, alone or with one of the caller's lists as
\* SubCommands
WithSubs(shapes, ls) ==
    shapes \cup {[c EXCEPT !.SubCommands = ls[i], !.PreventDefaultSubCommands = p] :
                    c \in shapes, i \in 1..Len(ls), p \in BOOLEAN}

(***************************************************************************)
(* Spec: registration of valid and invalid commands                        *)
(***************************************************************************)
\* names over 'a' and ' ' up to MaxNameLen, and the names the checks of
\* AddCommand single out
TopNames ==
    (UNION {[1..k -> {"a", " "}] : k \in 0..MaxNameLen}) \cup {NameDashA, NameHelp}

TopShapes ==
    {Plain(n) : n \in TopNames}
    \cup {Command(NameB, UsageText, NilFunc, NilFunc, NilSlice, FALSE),
          Command(NameB, UsageText, SetFlagsFunc({}), UserMain, NilSlice, FALSE),
          Command(NameB, UsageText, SetFlagsFunc({BoolFlag(FlagX)}), UserMain, NilSlice, FALSE),
          Command(NameB, UsageText, SetFlagsFunc({BoolFlag(FlagX), ValueFlag(FlagB)}), UserMain,
                  NilSlice, FALSE)}

SubPool ==
    {Plain(n) : n \in {<<>>, NameA, NameDashA, <<"a", " ">>, NameHelp}}
    \cup {Command(NameA, UsageText, NilFunc, NilFunc, NilSlice, FALSE),
          Command(NameA, UsageText, NilFunc, UserMain, ThirdLevel, FALSE),
          Command(NameB, UsageText, SetFlagsFunc({BoolFlag(FlagX)}), UserMain, NilSlice, FALSE)}

Next ==
    \/ \E elems \in ListsOf(SubPool) : \E spare \in 0..MaxSpare : MakeList(elems, spare)
    \/ \E cmd \in WithSubs(TopShapes, lists) : AddCommand(cmd)

Spec == Init /\ [][Next]_vars

(***************************************************************************)
(* SpecDispatch: lines dispatched to Apps of valid commands                *)
(***************************************************************************)
NameAA == <<"a", "a">>
NameADash == <<"a", "-">>

DispatchSubs ==
    {Command(NameA, UsageText, NilFunc, MainFunc("user", ExitShell), NilSlice, FALSE),
     Command(NameAA, UsageText, SetFlagsFunc({BoolFlag(FlagX)}), MainFunc("user", ExitShell),
             NilSlice, FALSE),
     Command(NameADash, UsageText, NilFunc, MainFunc("user", ExitShell), NilSlice, FALSE)}

DispatchShapes ==
    {Command(NameA, UsageText, NilFunc, MainFunc("user", ExitAll), NilSlice, FALSE),
     Command(NameAA, UsageText, SetFlagsFunc({ValueFlag(FlagX)}), MainFunc("user", ExitAll),
             NilSlice, FALSE)}

Tokens == {NameA, NameAA, NameADash, <<"-", "x">>, <<"-", "y">>}

TokenSeqs == UNION {[1..k -> Tokens] : k \in 1..MaxTokens}

\* the tokens with sep between them
RECURSIVE Join(_, _)
Join(toks, sep) ==
    IF Len(toks) = 1 THEN toks[1] ELSE toks[1] \o sep \o Join(Tail(toks), sep)

\* the lines typed: tokens one space apart, the shorter ones also with
\* more whitespace around them, and lines of whitespace only
Lines ==
    {Join(t, <<" ">>) : t \in TokenSeqs}
    \cup {<<" ">> \o Join(t, <<"\t", " ">>) \o <<"\n">> : t \in {u \in TokenSeqs : Len(u) <= 2}}
    \cup {<<>>, <<" ">>, <<"\t", " ">>}

NextDispatch ==
    \/ \E elems \in ListsOf(DispatchSubs) : MakeList(elems, 0)
    \/ \E cmd \in WithSubs(DispatchShapes, lists) : AddCommand(cmd)
    \/ /\ last.op # "exec"
       /\ \E line \in Lines : ExecuteString(line)

SpecDispatch == Init /\ [][NextDispatch]_vars

(***************************************************************************)
(* SpecMain: App.Main reading a stream of lines                            *)
(***************************************************************************)
MaxLines == 2

MainSubs ==
    {Command(NameA, UsageText, NilFunc, MainFunc("user", ExitShell), NilSlice, FALSE),
     Command(NameAA, UsageText, SetFlagsFunc({BoolFlag(FlagX)}), MainFunc("user", ExitCmd),
             NilSlice, FALSE)}

MainShapes ==
    {Command(NameA, UsageText, NilFunc, MainFunc("user", ExitCmd), NilSlice, FALSE),
     Command(NameA, UsageText, NilFunc, MainFunc("user", ExitAll), NilSlice, FALSE),
     Command(NameA, UsageText, SetFlagsFunc({BoolFlag(FlagX)}), MainFunc("user", ExitCmd),
             NilSlice, FALSE)}

\* the lines waiting on app.Input
MainLines ==
    {NameExit, NameExit \o <<" ", "-">> \o FlagShellOnly, NameExit \o <<" ", "a">>,
     NameExit \o <<" ", "-">> \o FlagShellOnly \o <<" ", "a">>,
     NameA, <<"a", " ", "a">>, <<"a", " ", "a", "a">>, <<"a", " ", "-", "x">>,
     <<"a", " ", "-", "y">>, <<"b">>, <<" ">>, Interrupt}

Streams == UNION {[1..k -> MainLines] : k \in 0..MaxLines}

NextMain ==
    \/ /\ loop.state = "idle"
       /\ \E elems \in ListsOf(MainSubs) : MakeList(elems, 0)
    \/ /\ loop.state = "idle"
       /\ \E cmd \in WithSubs(MainShapes, lists) : AddCommand(cmd)
    \/ \E lines \in Streams : MainStart(lines)
    \/ MainStep

SpecMain == Init /\ [][NextMain]_vars

\* the same loop over fewer trees: the lists have one sub-command and the
\* commands have no flags
NextMainFair ==
    \/ /\ loop.state = "idle"
       /\ \E elems \in [1..1 -> MainSubs] : MakeList(elems, 0)
    \/ /\ loop.state = "idle"
       /\ \E cmd \in WithSubs({c \in MainShapes : ~c.SetFlags.def}, lists) : AddCommand(cmd)
    \/ \E lines \in Streams : MainStart(lines)
    \/ MainStep

\* Main runs its loop to the end once it is called: an iteration that can
\* be made is made
SpecMainFair == Init /\ [][NextMainFair]_vars /\ WF_vars(MainStep)

(***************************************************************************)
(* SpecHelp: the default help on Apps of commands registered in any order  *)
(***************************************************************************)
NameF == <<"f">>

HelpNames == {NameA, NameAA, NameADash, NameB, NameF}

HelpArgLines ==
    {NameHelp, NameHelp \o <<" ">> \o NameA, NameHelp \o <<" ">> \o NameF,
     NameHelp \o <<" ">> \o NameA \o <<" ">> \o NameB, NameExit \o <<" ">> \o NameA}

NextHelp ==
    \/ \E n \in HelpNames : AddCommand(Plain(n))
    \/ /\ last.op # "exec"
       /\ \E line \in HelpArgLines : ExecuteString(line)

SpecHelp == Init /\ [][NextHelp]_vars

(***************************************************************************)
(* SpecContext: Set and Delete on the store of one Context                 *)
(***************************************************************************)
StoreKeys == {KeyFoo, KeyMark, KeyOnlyShell}

StoreValues == {NilValue, "bar", "true", "false"}

NextContext ==
    \/ \E k \in StoreKeys : \E v \in StoreValues : CallSet(k, v)
    \/ \E k \in StoreKeys : CallDelete(k)

SpecContext == Init /\ [][NextContext]_vars

(***************************************************************************)
(* Properties of registration.  A step with calls' = calls + 1 is one      *)
(* AddCommand call: last'.cmd is the command passed, the unprimed          *)
(* variables are the memory before the call.                               *)
(***************************************************************************)
\* the i-th top-level command of the App
TopCommand(i) == objs[Commands[i]]

\* the sub-commands a command value shows in the current memory
SubsOf(c) == Elems(arrays, c.SubCommands)

NameTaken(n) == \E i \in 1..Len(Commands) : TopCommand(i).Name = n

StartsWithDash(n) == n # <<>> /\ n[1] = "-"

\* the command tree an App shows: each top-level command with its
\* sub-commands, parent links, owner links and usage texts included
Tree == [i \in 1..Len(Commands) |-> [cmd |-> TopCommand(i), subs |-> SubsOf(TopCommand(i))]]

\* C1: AddCommand fails with the duplicate-name error whenever a top-level
\* command of the same name is registered (help and exit on an App built
\* with defaults among them), and registers nothing then; the names of the
\* top-level commands are always pairwise distinct.
C1_DuplicateRejected ==
    /\ [](\A i, j \in 1..Len(Commands) : TopCommand(i).Name = TopCommand(j).Name => i = j)
    /\ [][(calls' = calls + 1 /\ NameTaken(last'.cmd.Name))
            => /\ last'.err = Err("duplicate", last'.cmd.Name, 0)
               /\ Commands' = Commands]_vars

\* a call that registers "help" on an App built with the default commands
\* was made and rejected
C1_Witness ==
    /\ last.op = "add"
    /\ last.cmd.Name = NameHelp
    /\ last.err.kind = "duplicate"
    /\ Len(Commands) >= 2

\* C2: whenever AddCommand returns an error the registered command tree is
\* what it was before the call: the same top-level commands, and no
\* registered command's sub-command list, parent link, owner link or usage
\* text changed.
C2_AllOrNothing ==
    [][(calls' = calls + 1 /\ last'.err.kind \notin {"ok", "panic"}) => Tree' = Tree]_vars

\* C3: the sub-commands of every registered command, the declared ones and
\* the injected defaults together, have pairwise distinct names.
C3_SubNamesDistinct ==
    \A i \in 1..Len(Commands) :
        \A j, k \in 1..TopCommand(i).SubCommands.len :
            SubsOf(TopCommand(i))[j].Name = SubsOf(TopCommand(i))[k].Name => j = k

\* the names of the sub-command list C4 states for a command declaring subs
ExpectedSubNames(cmd, subs) ==
    IF Len(subs) = 0 \/ cmd.PreventDefaultSubCommands
    THEN [j \in 1..Len(subs) |-> subs[j].Name]
    ELSE [j \in 1..Len(subs) |-> subs[j].Name]
         \o <<NameCommands>>
         \o (IF cmd.SetFlags.def \/ \E j \in 1..Len(subs) : subs[j].SetFlags.def
             THEN <<NameFlags>> ELSE <<>>)
         \o <<NameHelp>>

\* C4: after a successful AddCommand the registered command's sub-command
\* list is the declared list when nothing was declared or the defaults are
\* prevented, and otherwise the declared sub-commands followed by commands,
\* flags (exactly once when the command or a sub-command has SetFlags, not
\* at all when none has) and help.
C4_DefaultInjection ==
    [][(calls' = calls + 1 /\ last'.err = NoErr)
         => [j \in 1..objs'[Commands'[Len(Commands')]].SubCommands.len |->
                arrays'[objs'[Commands'[Len(Commands')]].SubCommands.arr][j].Name]
            = ExpectedSubNames(last'.cmd, SubsOf(last'.cmd))]_vars

\* a sub-command the loop over the sub-commands rejects
Rejected(sub) == StartsWithDash(sub.Name) \/ sub.SubCommands.len > 0

\* the first element of subs that satisfies Rejected
FirstRejected(subs) ==
    subs[CHOOSE k \in 1..Len(subs) : Rejected(subs[k]) /\ \A j \in 1..(k - 1) : ~Rejected(subs[j])]

\* C5: a call whose command name is free and that declares a sub-command
\* with a name starting with '-' or with sub-commands of its own fails and
\* registers nothing: with the leading-dash error when the first such
\* sub-command has the dash, with the too-deep error naming the command
\* otherwise.  No registered sub-command ever has a name starting with '-'
\* or sub-commands of its own.
C5_DashAndDepth ==
    /\ [](\A i \in 1..Len(Commands) : \A j \in 1..TopCommand(i).SubCommands.len :
            ~Rejected(SubsOf(TopCommand(i))[j]))
    /\ [][(/\ calls' = calls + 1
           /\ ~NameTaken(last'.cmd.Name)
           /\ \E k \in 1..last'.cmd.SubCommands.len : Rejected(SubsOf(last'.cmd)[k]))
            => /\ Commands' = Commands
               /\ last'.err = IF StartsWithDash(FirstRejected(SubsOf(last'.cmd)).Name)
                              THEN Err("dash", <<>>, 0)
                              ELSE Err("deep", last'.cmd.Name, 0)]_vars

\* a call with a valid first and a dash-named second sub-command was
\* rejected with the leading-dash error
C5_Witness ==
    /\ last.op = "add"
    /\ last.err.kind = "dash"
    /\ last.cmd.SubCommands.len = 2
    /\ ~Rejected(SubsOf(last.cmd)[1])
    /\ StartsWithDash(SubsOf(last.cmd)[2].Name)

\* the command passed and the sub-commands it declares, in the order the
\* checks visit them
ItemsOf(cmd) == <<cmd>> \o SubsOf(cmd)

HasSpace(n) == \E i \in 1..Len(n) : IsSpace(n[i])

Invalid(item) == item.Name = <<>> \/ HasSpace(item.Name) \/ ~item.Main.def

\* the first element of items that satisfies Invalid
FirstInvalid(items) ==
    items[CHOOSE k \in 1..Len(items) : Invalid(items[k]) /\ \A j \in 1..(k - 1) : ~Invalid(items[j])]

\* the error C6 states for an invalid item
ErrorFor(item) ==
    IF item.Name = <<>> THEN Err("blank", <<>>, 0)
    ELSE IF HasSpace(item.Name)
         THEN Err("whitespace", item.Name, Cardinality({i \in 1..Len(item.Name) : IsSpace(item.Name[i])}))
         ELSE Err("nomain", item.Name, 0)

\* C6: a call that passes the checks before (free name, no sub-command
\* with a leading dash or a second level) and whose command or one of whose
\* sub-commands has an empty name, a name with whitespace or no Main, fails
\* with the error of the first such item: blank name, whitespace with the
\* number of whitespace characters, or missing handler.  Every registered
\* command and sub-command has a non-empty name without whitespace and a
\* Main.
C6_ItemErrors ==
    /\ [](\A i \in 1..Len(Commands) :
            /\ ~Invalid(TopCommand(i))
            /\ \A j \in 1..TopCommand(i).SubCommands.len : ~Invalid(SubsOf(TopCommand(i))[j]))
    /\ [][(/\ calls' = calls + 1
           /\ ~NameTaken(last'.cmd.Name)
           /\ \A k \in 1..last'.cmd.SubCommands.len : ~Rejected(SubsOf(last'.cmd)[k])
           /\ \E k \in 1..Len(ItemsOf(last'.cmd)) : Invalid(ItemsOf(last'.cmd)[k]))
            => /\ Commands' = Commands
               /\ last'.err = ErrorFor(FirstInvalid(ItemsOf(last'.cmd)))]_vars

(***************************************************************************)
(* Properties of dispatch.  A state with last.op = "exec" is the state     *)
(* after one ExecuteString call; the App is what it was before the call.   *)
(***************************************************************************)
\* the tokens of the line dispatched last
LastTokens == Fields(last.line)

\* C7: for every registered command c and sub-command s of c, a line whose
\* first token is c's name and whose second token is s's name runs s, and
\* Execute is given the tokens without the first.
C7_SubCommandDispatch ==
    \A i \in 1..Len(Commands) : \A j \in 1..TopCommand(i).SubCommands.len :
        (/\ last.op = "exec"
         /\ Len(LastTokens) >= 2
         /\ LastTokens[1] = TopCommand(i).Name
         /\ LastTokens[2] = SubsOf(TopCommand(i))[j].Name)
        => /\ last.exec.ran.Name = LastTokens[2]
           /\ last.exec.ran.parent = Commands[i]
           /\ last.exec.args = Tail(LastTokens)

\* C8: for a registered command c named by the first token, when there is
\* no second token, or the second token starts with '-', or no sub-command
\* of c has the second token as its name, c itself runs and Execute is
\* given all the tokens; second tokens of one character included.
C8_TopLevelDispatch ==
    \A i \in 1..Len(Commands) :
        (/\ last.op = "exec"
         /\ LastTokens # <<>>
         /\ LastTokens[1] = TopCommand(i).Name
         /\ \/ Len(LastTokens) = 1
            \/ LastTokens[2][1] = "-"
            \/ \A j \in 1..TopCommand(i).SubCommands.len :
                    SubsOf(TopCommand(i))[j].Name # LastTokens[2])
        => /\ last.exec.ran = TopCommand(i)
           /\ last.exec.args = LastTokens

\* C9: a line whose first token is the name of no registered top-level
\* command gives the no-such-command error with that token, a line that is
\* empty or all whitespace gives the input error; either way the status is
\* ExitCmd and neither SetFlags nor Main of any command is called.
C9_NoCommand ==
    last.op = "exec" =>
        /\ (\A k \in 1..Len(last.line) : IsSpace(last.line[k]))
            => /\ last.err = Err("parseinput", last.line, 0)
               /\ last.status = ExitCmd
               /\ last.exec.setFlagsCalls = 0 /\ last.exec.mainCalls = 0
        /\ (LastTokens # <<>> /\ ~NameTaken(LastTokens[1]))
            => /\ last.err = Err("nocmd", LastTokens[1], 0)
               /\ last.status = ExitCmd
               /\ last.exec.setFlagsCalls = 0 /\ last.exec.mainCalls = 0

\* the line "a" found no command although a command named "aa" is
\* registered: names are compared whole, not by prefix
C9_Witness ==
    /\ last.op = "exec"
    /\ LastTokens = <<NameA>>
    /\ NameTaken(NameAA)
    /\ last.err.kind = "nocmd"

\* the flags the command run last registers
LastFlags == IF last.exec.ran.SetFlags.def THEN last.exec.ran.SetFlags.flags ELSE {}

\* what Parse says of the arguments of the command run last
LastParse == ParseFlags(LastFlags, Tail(last.exec.args), {})

\* C10: when Parse rejects the arguments of the command Execute runs, the
\* dispatch returns ErrParseFlags with the command's name and the error of
\* Parse, the status is ExitCmd and Main is not called.
C10_ParseError ==
    (last.op = "exec" /\ last.exec.args # <<>> /\ LastParse.err # "")
        => /\ last.err = ErrParseFlags(last.exec.ran.Name, LastParse.err)
           /\ last.status = ExitCmd
           /\ last.exec.mainCalls = 0

\* a sub-command with flags was given a flag it does not define
C10_Witness ==
    /\ last.op = "exec"
    /\ last.exec.ran.parent # 0
    /\ last.exec.ran.SetFlags.def
    /\ last.exec.args = <<NameAA, <<"-", "y">> >>
    /\ last.err.kind = "parseflags"
    /\ last.exec.setFlagsCalls = 1

(***************************************************************************)
(* Properties of the Context store                                         *)
(***************************************************************************)
\* what the three reads give for a key without value
ReadsAbsent(values, k) ==
    /\ Get(values, k).err
    /\ ShouldGet(values, k) = NilValue
    /\ MustGet(values, k).panic

\* what the three reads give for a key holding v
ReadsValue(values, k, v) ==
    /\ ~Get(values, k).err /\ Get(values, k).val = v
    /\ ShouldGet(values, k) = v
    /\ ~MustGet(values, k).panic /\ MustGet(values, k).val = v

\* the three reads of k give the same before and after the step
ReadsUnchanged(k) ==
    /\ Get(ctx', k) = Get(ctx, k)
    /\ ShouldGet(ctx', k) = ShouldGet(ctx, k)
    /\ MustGet(ctx', k) = MustGet(ctx, k)

\* C16: in a new Context every key reads as absent (Get returns the error,
\* ShouldGet nil, MustGet panics); after Set(k, v) the three reads give v
\* for k; after Delete(k) they read k as absent again, and Delete of an
\* absent key changes nothing; Set and Delete on k leave the three reads of
\* every other key as they were.
C16_ContextStore ==
    /\ \A k \in StoreKeys : ReadsAbsent(ctx, k)
    /\ [][\A k \in StoreKeys :
            /\ \A v \in StoreValues :
                  CallSet(k, v) => /\ ReadsValue(ctx', k, v)
                                   /\ \A j \in StoreKeys \ {k} : ReadsUnchanged(j)
            /\ CallDelete(k) => /\ ReadsAbsent(ctx', k)
                                /\ \A j \in StoreKeys \ {k} : ReadsUnchanged(j)]_vars
    /\ [](\A k \in StoreKeys : ReadsAbsent(ctx, k) => Delete(ctx, k) = ctx)

\* a key was set to nil while another key holds a value and the third was
\* never set or was deleted
C16_Witness ==
    /\ KeyFoo \in DOMAIN ctx /\ ctx[KeyFoo] = NilValue
    /\ ReadsValue(ctx, KeyMark, "bar")
    /\ ReadsAbsent(ctx, KeyOnlyShell)

(***************************************************************************)
(* Properties of App.Main                                                  *)
(***************************************************************************)
\* the dispatches of the loop whose status is not ExitCmd
NotExitCmd == {i \in 1..Len(loop.log) : loop.log[i].status # ExitCmd}

\* C11: when Main has returned, its value is ExitShell or ExitAll and never
\* ExitCmd: it is ExitShell if every dispatch gave ExitCmd (the input ended),
\* and otherwise the status of the first dispatch that gave another one,
\* which is the last dispatch the loop made.
C11_LoopStatus ==
    loop.state = "terminated" =>
        /\ loop.ret \in {ExitShell, ExitAll}
        /\ IF NotExitCmd = {} THEN loop.ret = ExitShell
           ELSE /\ NotExitCmd = {Len(loop.log)}
                /\ loop.ret = loop.log[Len(loop.log)].status

\* Main returned ExitAll from its second dispatch, the first having given
\* ExitCmd
C11_Witness ==
    /\ loop.state = "terminated" /\ loop.ret = ExitAll
    /\ Len(loop.log) = 2 /\ loop.log[1].status = ExitCmd

\* whether Readline gives the error: end of input or interrupt
EndOfInput == loop.input = <<>> \/ Head(loop.input) = Interrupt

\* whether the line Readline gives is blank
BlankLine == ~EndOfInput /\ TrimSpace(Head(loop.input)) = <<>>

\* C12: an iteration of the loop leaves the reading state exactly when the
\* input has ended or the dispatch gave no error and a status other than
\* ExitCmd; a blank line prints and dispatches nothing; a dispatch that
\* gives an error has the error printed; and in both cases the loop stays
\* reading with the line consumed.
C12_StaysReading ==
    [][loop.state = "reading" =>
          /\ loop'.state # "reading" <=>
                \/ EndOfInput
                \/ ~BlankLine /\ last'.err = NoErr /\ last'.status # ExitCmd
          /\ BlankLine => /\ loop'.log = loop.log /\ last' = last
                          /\ loop'.input = Tail(loop.input)
          /\ ~EndOfInput /\ ~BlankLine /\ last'.err # NoErr =>
                /\ loop'.state = "reading"
                /\ loop'.input = Tail(loop.input)
                /\ loop'.log[Len(loop'.log)].printed # ""]_vars

\* C12 for the iterations in which nothing panics
C12_StaysReadingUnlessPanic ==
    [][loop.state = "reading" /\ loop'.state # "panicked" =>
          /\ loop'.state # "reading" <=>
                \/ EndOfInput
                \/ ~BlankLine /\ last'.err = NoErr /\ last'.status # ExitCmd
          /\ BlankLine => /\ loop'.log = loop.log /\ last' = last
                          /\ loop'.input = Tail(loop.input)
          /\ ~EndOfInput /\ ~BlankLine /\ last'.err # NoErr =>
                /\ loop'.state = "reading"
                /\ loop'.input = Tail(loop.input)
                /\ loop'.log[Len(loop'.log)].printed # ""]_vars

\* C13: Main is never unwound by a panic unless a handler it called
\* panicked: resolving and executing a line either reads on or returns.
C13_LoopNeverAborts ==
    loop.state = "panicked" => loop.log[Len(loop.log)].exec.mainCalls = 1

\* C14: a loop that is reading eventually terminates; it has then returned
\* ExitShell if no dispatch gave another status than ExitCmd; and a loop
\* that has terminated reads and dispatches nothing more.
C14_Terminates ==
    /\ (loop.state = "reading" ~> loop.state = "terminated")
    /\ [](loop.state = "terminated" /\ NotExitCmd = {} => loop.ret = ExitShell)
    /\ [][loop.state = "terminated" => loop' = loop /\ last' = last /\ ctx' = ctx]_vars

\* C14 with the panic as a second way to stop
C14_TerminatesUnlessPanic ==
    /\ (loop.state = "reading" ~> loop.state \in {"terminated", "panicked"})
    /\ [](loop.state = "terminated" /\ NotExitCmd = {} => loop.ret = ExitShell)
    /\ [][loop.state = "terminated" => loop' = loop /\ last' = last /\ ctx' = ctx]_vars

\* the arguments typed after the command name
TypedArgs(line) == Tail(Fields(line))

\* the status the default exit is to give for its arguments: ExitCmd with
\* a positional argument, else ExitShell with -shell-only, else ExitAll
ExitExpected(args) ==
    IF \E i \in 1..Len(args) : args[i][1] # "-" THEN ExitCmd
    ELSE IF \E i \in 1..Len(args) : args[i] = <<"-">> \o FlagShellOnly THEN ExitShell
    ELSE ExitAll

\* whether dispatch e of the log ran the Main of the default exit
RanExit(e) == e.exec.mainCalls = 1 /\ e.exec.ran.Main.kind = "exit"

\* C15: whenever the loop ran the default exit, the status is ExitCmd if a
\* positional argument was typed, with or without -shell-only, else
\* ExitShell if -shell-only was typed and ExitAll if not; the loop returns
\* the ExitShell or ExitAll of exit, and reads on after the ExitCmd.
C15_ExitCommand ==
    /\ [](\A i \in 1..Len(loop.log) :
            RanExit(loop.log[i]) =>
                /\ loop.log[i].status = ExitExpected(TypedArgs(loop.log[i].line))
                /\ loop.log[i].status # ExitCmd =>
                      /\ i = Len(loop.log)
                      /\ loop.state = "terminated" /\ loop.ret = loop.log[i].status)
    /\ [][/\ Len(loop'.log) > Len(loop.log)
          /\ RanExit(loop'.log[Len(loop'.log)])
          /\ loop'.log[Len(loop'.log)].status = ExitCmd
          => loop'.state = "reading"]_vars

\* the loop ran exit with -shell-only and a positional argument, read on,
\* and returned ExitShell from exit with -shell-only alone
C15_Witness ==
    /\ Len(loop.log) = 2
    /\ RanExit(loop.log[1]) /\ Len(TypedArgs(loop.log[1].line)) = 2
    /\ loop.log[1].status = ExitCmd
    /\ RanExit(loop.log[2]) /\ loop.ret = ExitShell /\ loop.state = "terminated"

\* C17: Main is called on a store that holds nothing but what the SetFlags
\* of the same invocation put there: the pointer of exit for the default
\* exit, nothing for any other command; what an earlier invocation stored
\* is not in it.
C17_FreshContext ==
    \A i \in 1..Len(loop.log) :
        loop.log[i].exec.ran # ZeroCommand =>
            /\ KeyMark \notin DOMAIN loop.log[i].exec.seen
            /\ DOMAIN loop.log[i].exec.seen =
                  IF loop.log[i].exec.ran.Main.kind = "exit" THEN {KeyOnlyShell} ELSE {}

\* a handler stored a value in its Context and the loop then dispatched
\* another line to a handler
C17_Witness ==
    /\ Len(loop.log) = 2
    /\ KeyMark \in DOMAIN loop.log[1].exec.values
    /\ loop.log[2].exec.mainCalls = 1

(***************************************************************************)
(* Properties of the registered tree                                       *)
(***************************************************************************)
\* C18: every top-level command has no parent and is owned by the App;
\* every sub-command of a registered command has that command, the object
\* app.Commands points to, as parent, has no sub-commands of its own and is
\* owned by the App.
C18_BackLinks ==
    \A i \in 1..Len(Commands) :
        /\ TopCommand(i).parent = 0
        /\ TopCommand(i).app = "app"
        /\ \A j \in 1..TopCommand(i).SubCommands.len :
              /\ SubsOf(TopCommand(i))[j].parent = Commands[i]
              /\ SubsOf(TopCommand(i))[j].SubCommands.len = 0
              /\ SubsOf(TopCommand(i))[j].app = "app"

\* the command the call of this step registered
Added == objs'[Commands'[Len(Commands')]]

\* the j-th sub-command of the command the call of this step registered
AddedSub(j) == arrays'[Added.SubCommands.arr][j]

\* what UsageText is to start with once ${name} and ${fullName} are replaced
UsageHead(name, fullName) == name \o <<":">> \o fullName

\* whether text still holds the placeholder tmpl
Holds(text, tmpl) == ReplaceAll(text, tmpl, <<>>) # text

\* C19: after a successful AddCommand the usage of the registered command,
\* declared as UsageText, starts with its name for ${name} and its name for
\* ${fullName}, the usage of each declared sub-command, declared as
\* UsageText, with its name and "<parent name> <name>", and no usage of the
\* command or of a sub-command holds ${name} or ${fullName} any more; a
\* dispatch changes nothing in the registered tree, usage texts included.
C19_UsageTemplates ==
    /\ [][calls' = calls + 1 /\ last'.err = NoErr =>
            /\ HasPrefix(Added.Usage, UsageHead(Added.Name, Added.Name))
            /\ \A j \in 1..last'.cmd.SubCommands.len :
                  HasPrefix(AddedSub(j).Usage,
                            UsageHead(AddedSub(j).Name,
                                      Added.Name \o <<" ">> \o AddedSub(j).Name))
            /\ \A j \in 1..Added.SubCommands.len :
                  ~Holds(AddedSub(j).Usage, TmplName) /\ ~Holds(AddedSub(j).Usage, TmplFullName)]_vars
    /\ [][last'.op = "exec" => Tree' = Tree]_vars

\* C19 for the sub-commands whose usage is still the declared text when the
\* call is made
C19_UsageTemplatesOfDeclared ==
    /\ [][calls' = calls + 1 /\ last'.err = NoErr =>
            /\ HasPrefix(Added.Usage, UsageHead(Added.Name, Added.Name))
            /\ \A j \in 1..last'.cmd.SubCommands.len :
                  SubsOf(last'.cmd)[j].Usage = UsageText =>
                      HasPrefix(AddedSub(j).Usage,
                                UsageHead(AddedSub(j).Name,
                                          Added.Name \o <<" ">> \o AddedSub(j).Name))
            /\ \A j \in 1..Added.SubCommands.len :
                  ~Holds(AddedSub(j).Usage, TmplName) /\ ~Holds(AddedSub(j).Usage, TmplFullName)]_vars
    /\ [][last'.op = "exec" => Tree' = Tree]_vars

\* what ${shortFlags} is to become for the flag sets of TopShapes
ShortFlagsExpected(f) ==
    IF ~f.def \/ f.flags = {} THEN <<>>
    ELSE IF f.flags = {BoolFlag(FlagX)} THEN <<" ", "[", "-", "x", "]">>
    ELSE <<" ", "[", "-", "b", "]", " ", "[", "-", "x", "]">>

\* C20: a call that passes every check of AddCommand succeeds, whether its
\* command has no SetFlags, a SetFlags that registers no flag, or one that
\* registers flags; the usage of the registered command has nothing for
\* ${shortFlags} in the first two cases and "[-f1] ... [-fn]", the flags in
\* the order of their names, one space apart, in the third.
C20_FlagTemplates ==
    [][(/\ calls' = calls + 1
        /\ ~NameTaken(last'.cmd.Name)
        /\ \A k \in 1..last'.cmd.SubCommands.len : ~Rejected(SubsOf(last'.cmd)[k])
        /\ \A k \in 1..Len(ItemsOf(last'.cmd)) : ~Invalid(ItemsOf(last'.cmd)[k]))
         => /\ last'.err = NoErr
            /\ Added.Usage = UsageHead(Added.Name, Added.Name)
                             \o ShortFlagsExpected(last'.cmd.SetFlags)]_vars

\* C20 for the calls in which getShortDefaults does not panic
C20_FlagTemplatesUnlessPanic ==
    [][(/\ calls' = calls + 1
        /\ last'.err.kind # "panic"
        /\ ~NameTaken(last'.cmd.Name)
        /\ \A k \in 1..last'.cmd.SubCommands.len : ~Rejected(SubsOf(last'.cmd)[k])
        /\ \A k \in 1..Len(ItemsOf(last'.cmd)) : ~Invalid(ItemsOf(last'.cmd)[k]))
         => /\ last'.err = NoErr
            /\ Added.Usage = UsageHead(Added.Name, Added.Name)
                             \o ShortFlagsExpected(last'.cmd.SetFlags)]_vars

(***************************************************************************)
(* Properties of Command.Execute                                           *)
(***************************************************************************)
\* the names of the flags the SetFlags of cmd registers
FlagNames(cmd) == IF cmd.SetFlags.def THEN {f.name : f \in cmd.SetFlags.flags} ELSE {}

\* whether the boolean flags typed before the first positional argument of
\* toks are all among names
RECURSIVE FlagsAccepted(_, _)
FlagsAccepted(toks, names) ==
    IF toks = <<>> \/ toks[1][1] # "-" THEN TRUE
    ELSE Tail(toks[1]) \in names /\ FlagsAccepted(Tail(toks), names)

\* C21: whenever Execute ran on a command, SetFlags was called once if the
\* command has one and not at all if not; the tokens after the first were
\* parsed against the flags SetFlags registered, so a typed flag that
\* SetFlags registers is accepted; Main was called once if the parse
\* succeeded, on the store SetFlags left (the flag pointer of exit is in
\* it), and Execute returned Main's status without error; Main was not
\* called if the parse failed, and Execute returned the parse error.
C21_ExecuteOrder ==
    last.op = "exec" /\ last.exec.ran # ZeroCommand /\ last.err.kind # "panic" =>
        /\ last.exec.setFlagsCalls = IF last.exec.ran.SetFlags.def THEN 1 ELSE 0
        /\ IF FlagsAccepted(Tail(last.exec.args), FlagNames(last.exec.ran))
           THEN /\ last.exec.mainCalls = 1
                /\ last.err = NoErr
                /\ last.exec.ran.Main.kind = "user" => last.status = last.exec.ran.Main.ret
                /\ last.exec.ran.Main.kind = "exit" =>
                      /\ ShouldGet(last.exec.seen, KeyOnlyShell) = PtrShellOnly
                      /\ last.status = ExitExpected(Tail(last.exec.args))
           ELSE /\ last.exec.mainCalls = 0
                /\ last.err.kind = "parseflags"
                /\ last.status = ExitCmd

\* a command whose SetFlags registers a flag was run with that flag typed
\* and its Main returned
C21_Witness ==
    /\ last.op = "exec"
    /\ last.exec.ran.Main.kind = "user" /\ last.exec.ran.SetFlags.def
    /\ Len(last.exec.args) = 2 /\ Tail(last.exec.args[2]) \in FlagNames(last.exec.ran)
    /\ last.exec.mainCalls = 1 /\ last.err = NoErr

(***************************************************************************)
(* Properties of the default help                                          *)
(***************************************************************************)
\* the names on the lines the last dispatch printed
ListedNames == [i \in 1..Len(last.exec.out) |->
                   SubSeq(last.exec.out[i], 2, Len(last.exec.out[i]) - 3)]

\* C22: whenever the Main of the default help ran it returned ExitCmd; with
\* no argument the names it listed are the names of the registered
\* top-level commands other than help, each once, every name before the
\* names that are greater in byte order.
C22_HelpList ==
    last.op = "exec" /\ last.exec.ran.Main.kind = "help" /\ last.exec.mainCalls = 1 =>
        /\ last.status = ExitCmd /\ last.err = NoErr
        /\ Len(last.exec.args) = 1 =>
              /\ {ListedNames[i] : i \in 1..Len(ListedNames)}
                 = {TopCommand(i).Name : i \in 1..Len(Commands)} \ {NameHelp}
              /\ \A i, j \in 1..Len(ListedNames) :
                    i < j => StrLess(ListedNames[i], ListedNames[j])

\* help listed three commands of which the one registered last comes first
C22_Witness ==
    /\ last.op = "exec" /\ last.exec.ran.Main.kind = "help"
    /\ Len(last.exec.out) = 3
    /\ ListedNames[1] = TopCommand(Len(Commands)).Name
    /\ ListedNames[3] = NameF

(***************************************************************************)
(* Properties of the order of the checks of AddCommand                     *)
(***************************************************************************)
\* the error the order of the checks gives for cmd in the current memory:
\* duplicate name; else the first sub-command with a leading dash or a
\* second level; else the first of the command and its sub-commands with a
\* blank name, whitespace or no Main; else none
OrderedError(cmd) ==
    IF NameTaken(cmd.Name) THEN Err("duplicate", cmd.Name, 0)
    ELSE IF \E k \in 1..cmd.SubCommands.len : Rejected(SubsOf(cmd)[k])
    THEN (IF StartsWithDash(FirstRejected(SubsOf(cmd)).Name)
          THEN Err("dash", <<>>, 0) ELSE Err("deep", cmd.Name, 0))
    ELSE IF \E k \in 1..Len(ItemsOf(cmd)) : Invalid(ItemsOf(cmd)[k])
    THEN ErrorFor(FirstInvalid(ItemsOf(cmd)))
    ELSE NoErr

\* the number of rules cmd violates in the current memory
Violations(cmd) ==
    (IF NameTaken(cmd.Name) THEN 1 ELSE 0)
    + Cardinality({k \in 1..cmd.SubCommands.len : Rejected(SubsOf(cmd)[k])})
    + Cardinality({k \in 1..Len(ItemsOf(cmd)) : Invalid(ItemsOf(cmd)[k])})

\* C23: a call whose command violates several rules returns the error the
\* fixed order gives: duplicate name, then leading dash or second level of
\* the first sub-command that has either, then blank name, whitespace or
\* missing Main of the first of the command and its sub-commands that has
\* one.
C23_ErrorOrder ==
    [][calls' = calls + 1 /\ Violations(last'.cmd) >= 2
         => last'.err = OrderedError(last'.cmd)]_vars

\* C23 for the calls in which getShortDefaults does not panic
C23_ErrorOrderUnlessPanic ==
    [][calls' = calls + 1 /\ Violations(last'.cmd) >= 2 /\ last'.err.kind # "panic"
         => last'.err = OrderedError(last'.cmd)]_vars

(***************************************************************************)
(* Properties of what AddCommand leaves alone                              *)
(***************************************************************************)
\* C24: a call of AddCommand, successful or not, leaves every command
\* registered before and each of its sub-commands as they were (parent
\* link, owner link and usage included), and leaves the elements of the
\* lists the caller holds as they were.
C24_WorkingCopy ==
    [][calls' = calls + 1 =>
          /\ \A i \in 1..Len(Commands) :
                /\ Commands'[i] = Commands[i]
                /\ objs'[Commands[i]] = objs[Commands[i]]
                /\ Elems(arrays', objs[Commands[i]].SubCommands)
                   = Elems(arrays, objs[Commands[i]].SubCommands)
          /\ \A k \in 1..Len(lists) : Elems(arrays', lists[k]) = Elems(arrays, lists[k])]_vars

====
